---- MODULE Spec2Model ----
(***************************************************************************)
(* Model of the AR viewer in src/app/components/ARScene.tsx: the ARScene   *)
(* component (orientation tracker, geolocation gate, marker visibility,    *)
(* camera rotation), the CameraFeed component (media stream lifecycle) and *)
(* the RelativeObject placement function.                                  *)
(*                                                                         *)
(* Real numbers.  The trigonometry of the source is evaluated exactly on   *)
(* angles that are multiples of 15 degrees.  A real is a record            *)
(* [num |-> <<a, b, c, d>>, den |-> n] standing for                        *)
(*     (a + b*sqrt(2) + c*sqrt(3) + d*sqrt(6)) / n,   n > 0.               *)
(* A radian value is an integer count of units of pi/360, so               *)
(* deg * Math.PI / 180 is 2*deg units and Math.PI / 2 is 180 units.        *)
(***************************************************************************)
EXTENDS Integers, Sequences, FiniteSets, TLC

(***************************************************************************)
(* Bounds of the model                                                     *)
(***************************************************************************)
MaxTurns == 1
MaxMeters == 12
MaxDirSteps == 48
MaxMounts == 3

(***************************************************************************)
(* Exact arithmetic                                                        *)
(***************************************************************************)
SurdInt(n) == <<n, 0, 0, 0>>

SurdNeg(s) == <<-s[1], -s[2], -s[3], -s[4]>>

SurdAdd(s, t) == <<s[1] + t[1], s[2] + t[2], s[3] + t[3], s[4] + t[4]>>

SurdScale(s, k) == <<s[1] * k, s[2] * k, s[3] * k, s[4] * k>>

SurdMul(s, t) ==
    << s[1]*t[1] + 2*s[2]*t[2] + 3*s[3]*t[3] + 6*s[4]*t[4],
       s[1]*t[2] + s[2]*t[1] + 3*(s[3]*t[4] + s[4]*t[3]),
       s[1]*t[3] + s[3]*t[1] + 2*(s[2]*t[4] + s[4]*t[2]),
       s[1]*t[4] + s[4]*t[1] + s[2]*t[3] + s[3]*t[2] >>

Real(n) == [num |-> SurdInt(n), den |-> 1]

Ratio(n, d) == [num |-> SurdInt(n), den |-> d]

RealNeg(x) == [num |-> SurdNeg(x.num), den |-> x.den]

RealMul(x, y) == [num |-> SurdMul(x.num, y.num), den |-> x.den * y.den]

RealAdd(x, y) ==
    IF x.den = y.den
    THEN [num |-> SurdAdd(x.num, y.num), den |-> x.den]
    ELSE [num |-> SurdAdd(SurdScale(x.num, y.den), SurdScale(y.num, x.den)),
          den |-> x.den * y.den]

RealSub(x, y) == RealAdd(x, RealNeg(y))

\* Equality of the numbers two reals stand for (denominators are positive).
RealEq(x, y) == SurdScale(x.num, y.den) = SurdScale(y.num, x.den)

(***************************************************************************)
(* Math.sin, Math.cos, Math.PI on radians counted in units of pi/360       *)
(***************************************************************************)
PiOver2 == 180

DegToRad(deg) == (deg * 2 * PiOver2) \div 180

\* sin on [0, pi/2] in steps of pi/12
SinTable(r) ==
    CASE r = 0   -> [num |-> <<0, 0, 0, 0>>,  den |-> 4]
      [] r = 30  -> [num |-> <<0, -1, 0, 1>>, den |-> 4]
      [] r = 60  -> [num |-> <<2, 0, 0, 0>>,  den |-> 4]
      [] r = 90  -> [num |-> <<0, 2, 0, 0>>,  den |-> 4]
      [] r = 120 -> [num |-> <<0, 0, 2, 0>>,  den |-> 4]
      [] r = 150 -> [num |-> <<0, 1, 0, 1>>,  den |-> 4]
      [] r = 180 -> [num |-> <<4, 0, 0, 0>>,  den |-> 4]

RECURSIVE MathSin(_), MathCos(_)

MathSin(r) ==
    IF r < 0 THEN RealNeg(MathSin(-r))
    ELSE IF r >= PiOver2 THEN MathCos(r - PiOver2)
    ELSE SinTable(r)

MathCos(r) ==
    IF r < 0 THEN MathCos(-r)
    ELSE IF r >= PiOver2 THEN RealNeg(MathSin(r - PiOver2))
    ELSE SinTable(PiOver2 - r)

(***************************************************************************)
(* RelativeObject: placement of a marker from (meters, direction)          *)
(***************************************************************************)
scaleFactor == Ratio(1, 2)

RelativeObject_swapped(meters, direction) ==
    LET directionRad == DegToRad(direction)
        x == RealMul(RealMul(MathCos(directionRad), Real(meters)), scaleFactor)
        z == RealMul(RealMul(RealNeg(MathSin(directionRad)), Real(meters)), scaleFactor)
    IN  <<x, Real(0), z>>

RelativeObject(meters, direction) ==
    LET directionRad == DegToRad(direction)
        x == RealMul(RealMul(MathSin(directionRad), Real(meters)), scaleFactor)
        z == RealMul(RealMul(RealNeg(MathCos(directionRad)), Real(meters)), scaleFactor)
    IN  <<x, Real(0), z>>

(***************************************************************************)
(* THREE.Quaternion.setFromEuler for THREE.Euler(x, y, z), order XYZ       *)
(***************************************************************************)
QuaternionIdentity == <<Real(0), Real(0), Real(0), Real(1)>>

SetFromEuler(x, y, z) ==
    LET c1 == MathCos(x \div 2)
        c2 == MathCos(y \div 2)
        c3 == MathCos(z \div 2)
        s1 == MathSin(x \div 2)
        s2 == MathSin(y \div 2)
        s3 == MathSin(z \div 2)
        Mul3(a, b, c) == RealMul(RealMul(a, b), c)
    IN  << RealAdd(Mul3(s1, c2, c3), Mul3(c1, s2, s3)),
           RealSub(Mul3(c1, s2, c3), Mul3(s1, c2, s3)),
           RealAdd(Mul3(c1, c2, s3), Mul3(s1, s2, c3)),
           RealSub(Mul3(c1, c2, c3), Mul3(s1, s2, s3)) >>

\* Hamilton product of quaternions <<x, y, z, w>>
QuaternionMultiply(a, b) ==
    << RealAdd(RealAdd(RealMul(a[1], b[4]), RealMul(a[4], b[1])),
               RealSub(RealMul(a[2], b[3]), RealMul(a[3], b[2]))),
       RealAdd(RealAdd(RealMul(a[2], b[4]), RealMul(a[4], b[2])),
               RealSub(RealMul(a[3], b[1]), RealMul(a[1], b[3]))),
       RealAdd(RealAdd(RealMul(a[3], b[4]), RealMul(a[4], b[3])),
               RealSub(RealMul(a[1], b[2]), RealMul(a[2], b[1]))),
       RealSub(RealSub(RealMul(a[4], b[4]), RealMul(a[1], b[1])),
               RealAdd(RealMul(a[2], b[2]), RealMul(a[3], b[3]))) >>

QuaternionEq(a, b) == \A i \in 1..4 : RealEq(a[i], b[i])

\* sensor angles, in degrees, of the modelled deviceorientation events
AngleSamples == {90 * k : k \in 0..MaxTurns}

BetaSamples == {0, 90}

GammaSamples == {0, 90}

\* setFromEuler evaluated once for each Euler triple the samples can produce
\* (@@ turns the table into an explicit function)
EulerSamples ==
    LET rad == {DegToRad(a) : a \in AngleSamples \cup BetaSamples \cup GammaSamples}
    IN  rad \cup {r - PiOver2 : r \in rad}

EulerQuaternion ==
    [e \in EulerSamples \X EulerSamples \X EulerSamples |->
        SetFromEuler(e[1], e[2], e[3])] @@ <<>>

(***************************************************************************)
(* State                                                                   *)
(***************************************************************************)
VARIABLES
    \* platform (fixed by the environment)
    requiresPermission,   \* DeviceOrientationEvent.requestPermission is a function
    geoAvailable,         \* "geolocation" in navigator
    \* ARScene
    scenePhase,           \* "created" (rendered, effects not run), "mounted", "unmounted"
    userLocation,
    deviceOrientation,
    permissionGranted,
    visibleObjects,
    cameraQuaternion,     \* camera.quaternion
    permState,            \* the promise of requestPermission
    requestCalls,         \* calls of requestPermission
    listenerRegistered,   \* handleOrientation is a deviceorientation listener of window
    geoState,             \* the pending getCurrentPosition query
    rendered,             \* what the last render of ARScene returned
    \* history of the run
    clicked,              \* ids handleObjectClick was called with
    lastValid,            \* latest delivered event with no null field
    \* CameraFeed, one entry per mounted instance
    mediaSupported,       \* navigator.mediaDevices.getUserMedia exists
    feedCount,            \* instances of CameraFeed mounted so far
    feedPhase,
    gumState,             \* the promise of getUserMedia
    gumCalls,
    videoRef,             \* videoRef.current is the video element
    srcObject,            \* videoRef.current.srcObject is the stream
    trackState,           \* the stream's track: "none", "live", "ended"
    \* one RelativeObject render
    probePhase,
    probeMeters,
    probeDirection,
    probePosition,
    probePositionTurn

sceneVars == <<requiresPermission, geoAvailable, scenePhase, userLocation,
               deviceOrientation, permissionGranted, visibleObjects,
               cameraQuaternion, permState, requestCalls, listenerRegistered,
               geoState, rendered, clicked, lastValid>>

feedVars == <<mediaSupported, feedCount, feedPhase, gumState, gumCalls,
              videoRef, srcObject, trackState>>

probeVars == <<probePhase, probeMeters, probeDirection, probePosition,
               probePositionTurn>>

vars == <<sceneVars, feedVars, probeVars>>

(***************************************************************************)
(* ARScene                                                                 *)
(***************************************************************************)
Null == <<>>

Some(v) == <<v>>

InitialObjects ==
    {"obj1", "obj2", "obj3", "obj4", "obj5", "obj6", "obj7", "obj8", "obj9", "obj10"}

\* props of the RelativeObject elements in the JSX of ARScene
Catalog ==
    [ obj1  |-> [meters |-> 1,  direction |-> 0],
      obj2  |-> [meters |-> 8,  direction |-> 45],
      obj3  |-> [meters |-> 3,  direction |-> 90],
      obj4  |-> [meters |-> 6,  direction |-> 135],
      obj5  |-> [meters |-> 4,  direction |-> 180],
      obj6  |-> [meters |-> 10, direction |-> 225],
      obj7  |-> [meters |-> 5,  direction |-> 270],
      obj8  |-> [meters |-> 7,  direction |-> 315],
      obj9  |-> [meters |-> 12, direction |-> 30],
      obj10 |-> [meters |-> 2,  direction |-> 150] ]

WaitingPermissionText == "Waiting for orientation permission..."

GettingLocationText == "Getting your location..."

NothingRendered == [text |-> "", markers |-> {}]

Render_locationFirst(granted, location, visible) ==
    IF location = Null
    THEN [text |-> GettingLocationText, markers |-> {}]
    ELSE IF ~granted
    THEN [text |-> WaitingPermissionText, markers |-> {}]
    ELSE [text |-> "", markers |-> {id \in DOMAIN Catalog : id \in visible}]

\* the return value of ARScene: the message shown, or the markers rendered
Render(granted, location, visible) ==
    IF ~granted
    THEN [text |-> WaitingPermissionText, markers |-> {}]
    ELSE IF location = Null
    THEN [text |-> GettingLocationText, markers |-> {}]
    ELSE [text |-> "", markers |-> {id \in DOMAIN Catalog : id \in visible}]

handleObjectClick_fromInitial(prev, objectId) == InitialObjects \ {objectId}

handleObjectClick(prev, objectId) == prev \ {objectId}

handleOrientation_partial(prev, event) ==
    [alpha |-> IF event.alpha # Null THEN event.alpha[1] ELSE prev.alpha,
     beta  |-> IF event.beta # Null THEN event.beta[1] ELSE prev.beta,
     gamma |-> IF event.gamma # Null THEN event.gamma[1] ELSE prev.gamma]

handleOrientation(prev, event) ==
    IF event.alpha # Null /\ event.beta # Null /\ event.gamma # Null
    THEN [alpha |-> event.alpha[1], beta |-> event.beta[1], gamma |-> event.gamma[1]]
    ELSE prev

cameraRotationEffect_accumulate(orientation, quaternion) ==
    LET alphaRad == DegToRad(orientation.alpha)
        betaRad  == DegToRad(orientation.beta)
        gammaRad == DegToRad(orientation.gamma)
    IN  QuaternionMultiply(quaternion, SetFromEuler(betaRad - PiOver2, alphaRad, gammaRad))

\* the effect on [deviceOrientation, camera]: the new camera.quaternion
cameraRotationEffect(orientation, quaternion) ==
    LET alphaRad == DegToRad(orientation.alpha)
        betaRad  == DegToRad(orientation.beta)
        gammaRad == DegToRad(orientation.gamma)
    IN  EulerQuaternion[<<betaRad - PiOver2, alphaRad, gammaRad>>]

(***************************************************************************)
(* Inputs from the environment                                             *)
(***************************************************************************)
OrientationEvents ==
    [alpha : {Null} \cup {Some(a) : a \in AngleSamples},
     beta  : {Null} \cup {Some(b) : b \in BetaSamples},
     gamma : {Null} \cup {Some(g) : g \in GammaSamples}]

PermissionStates == {"granted", "denied", "prompt"}

Positions == {[lat |-> 48, lng |-> 2], [lat |-> 0, lng |-> 0]}

DefaultOrientation == [alpha |-> 0, beta |-> 0, gamma |-> 0]

(***************************************************************************)
(* ARScene: construction                                                   *)
(***************************************************************************)
SceneInit ==
    /\ requiresPermission \in BOOLEAN
    /\ geoAvailable \in BOOLEAN
    /\ scenePhase = "created"
    /\ userLocation = Null
    /\ deviceOrientation = DefaultOrientation
    /\ permissionGranted = FALSE
    /\ visibleObjects = InitialObjects
    /\ cameraQuaternion = QuaternionIdentity
    /\ permState = "none"
    /\ requestCalls = 0
    /\ listenerRegistered = FALSE
    /\ geoState = "none"
    /\ rendered = Render(FALSE, Null, InitialObjects)
    /\ clicked = {}
    /\ lastValid = DefaultOrientation

\* a state setter of an unmounted component does nothing
Mounted == scenePhase = "mounted"

(***************************************************************************)
(* ARScene: the three effects run after the first render                   *)
(***************************************************************************)
SceneMount ==
    /\ scenePhase = "created"
    /\ scenePhase' = "mounted"
    \* requestOrientationPermission() up to its await
    /\ IF requiresPermission
       THEN /\ permState' = "pending"
            /\ requestCalls' = requestCalls + 1
            /\ listenerRegistered' = listenerRegistered
            /\ permissionGranted' = permissionGranted
       ELSE /\ permState' = permState
            /\ requestCalls' = requestCalls
            /\ listenerRegistered' = TRUE
            /\ permissionGranted' = TRUE
    \* navigator.geolocation.getCurrentPosition(...)
    /\ geoState' = IF geoAvailable THEN "pending" ELSE geoState
    /\ cameraQuaternion' = cameraRotationEffect(deviceOrientation, cameraQuaternion)
    /\ rendered' = Render(permissionGranted', userLocation, visibleObjects)
    /\ UNCHANGED <<requiresPermission, geoAvailable, userLocation, deviceOrientation,
                   visibleObjects, clicked, lastValid>>
    /\ UNCHANGED <<feedVars, probeVars>>

\* what the continuation after the await does with the resolved value
permissionActivates_always(permission) == TRUE

permissionActivates(permission) == permission = "granted"

\* the promise of requestPermission resolves
PermissionResolve ==
    /\ permState = "pending"
    /\ \E permission \in PermissionStates :
         /\ permState' = permission
         /\ IF permissionActivates(permission)
            THEN \* setupOrientationListener()
                 /\ listenerRegistered' = TRUE
                 /\ permissionGranted' = IF Mounted THEN TRUE ELSE permissionGranted
            ELSE UNCHANGED <<listenerRegistered, permissionGranted>>
    /\ rendered' = IF Mounted
                   THEN Render(permissionGranted', userLocation, visibleObjects)
                   ELSE rendered
    /\ UNCHANGED <<requiresPermission, geoAvailable, scenePhase, userLocation,
                   deviceOrientation, visibleObjects, cameraQuaternion, requestCalls,
                   geoState, clicked, lastValid>>
    /\ UNCHANGED <<feedVars, probeVars>>

\* the promise of requestPermission rejects: the catch block
PermissionReject ==
    /\ permState = "pending"
    /\ permState' = "rejected"
    /\ listenerRegistered' = TRUE
    /\ permissionGranted' = IF Mounted THEN TRUE ELSE permissionGranted
    /\ rendered' = IF Mounted
                   THEN Render(permissionGranted', userLocation, visibleObjects)
                   ELSE rendered
    /\ UNCHANGED <<requiresPermission, geoAvailable, scenePhase, userLocation,
                   deviceOrientation, visibleObjects, cameraQuaternion, requestCalls,
                   geoState, clicked, lastValid>>
    /\ UNCHANGED <<feedVars, probeVars>>

GeoSuccess_watch ==
    /\ geoState \in {"pending", "success"}
    /\ geoState' = "success"
    /\ \E position \in Positions :
         userLocation' = IF Mounted THEN position ELSE userLocation
    /\ rendered' = IF Mounted
                   THEN Render(permissionGranted, userLocation', visibleObjects)
                   ELSE rendered
    /\ UNCHANGED <<requiresPermission, geoAvailable, scenePhase, deviceOrientation,
                   permissionGranted, visibleObjects, cameraQuaternion, permState,
                   requestCalls, listenerRegistered, clicked, lastValid>>
    /\ UNCHANGED <<feedVars, probeVars>>

\* the success callback of getCurrentPosition
GeoSuccess ==
    /\ geoState = "pending"
    /\ geoState' = "success"
    /\ \E position \in Positions :
         userLocation' = IF Mounted THEN position ELSE userLocation
    /\ rendered' = IF Mounted
                   THEN Render(permissionGranted, userLocation', visibleObjects)
                   ELSE rendered
    /\ UNCHANGED <<requiresPermission, geoAvailable, scenePhase, deviceOrientation,
                   permissionGranted, visibleObjects, cameraQuaternion, permState,
                   requestCalls, listenerRegistered, clicked, lastValid>>
    /\ UNCHANGED <<feedVars, probeVars>>

\* the error callback of getCurrentPosition: console.error only
GeoError ==
    /\ geoState = "pending"
    /\ geoState' = "error"
    /\ UNCHANGED <<requiresPermission, geoAvailable, scenePhase, userLocation,
                   deviceOrientation, permissionGranted, visibleObjects,
                   cameraQuaternion, permState, requestCalls, listenerRegistered,
                   rendered, clicked, lastValid>>
    /\ UNCHANGED <<feedVars, probeVars>>

\* window dispatches a deviceorientation event to handleOrientation
OrientationEvent ==
    /\ listenerRegistered
    /\ \E event \in OrientationEvents :
         LET valid == event.alpha # Null /\ event.beta # Null /\ event.gamma # Null
             next  == handleOrientation(deviceOrientation, event)
         IN  /\ lastValid' = IF valid
                             THEN [alpha |-> event.alpha[1], beta |-> event.beta[1],
                                   gamma |-> event.gamma[1]]
                             ELSE lastValid
             /\ deviceOrientation' = IF Mounted THEN next ELSE deviceOrientation
             \* the effect runs again when setDeviceOrientation stored a new object
             /\ cameraQuaternion' =
                    IF Mounted /\ valid
                    THEN cameraRotationEffect(next, cameraQuaternion)
                    ELSE cameraQuaternion
    /\ UNCHANGED <<requiresPermission, geoAvailable, scenePhase, userLocation,
                   permissionGranted, visibleObjects, permState, requestCalls,
                   listenerRegistered, geoState, rendered, clicked>>
    /\ UNCHANGED <<feedVars, probeVars>>

\* a click on the mesh of a rendered RelativeObject
ObjectClick ==
    /\ Mounted
    /\ \E objectId \in rendered.markers :
         /\ visibleObjects' = handleObjectClick(visibleObjects, objectId)
         /\ clicked' = clicked \cup {objectId}
    /\ rendered' = Render(permissionGranted, userLocation, visibleObjects')
    /\ UNCHANGED <<requiresPermission, geoAvailable, scenePhase, userLocation,
                   deviceOrientation, permissionGranted, cameraQuaternion, permState,
                   requestCalls, listenerRegistered, geoState, lastValid>>
    /\ UNCHANGED <<feedVars, probeVars>>

\* unmount: the cleanup of the orientation effect
SceneUnmount ==
    /\ scenePhase = "mounted"
    /\ scenePhase' = "unmounted"
    /\ listenerRegistered' = FALSE
    /\ rendered' = NothingRendered
    /\ UNCHANGED <<requiresPermission, geoAvailable, userLocation, deviceOrientation,
                   permissionGranted, visibleObjects, cameraQuaternion, permState,
                   requestCalls, geoState, clicked, lastValid>>
    /\ UNCHANGED <<feedVars, probeVars>>

SceneIdle ==
    /\ SceneInit
    /\ requiresPermission = FALSE
    /\ geoAvailable = FALSE

(***************************************************************************)
(* CameraFeed                                                              *)
(***************************************************************************)
Instances == 1..MaxMounts

FeedInit ==
    /\ mediaSupported \in BOOLEAN
    /\ feedCount = 0
    /\ feedPhase = [i \in Instances |-> "none"]
    /\ gumState = [i \in Instances |-> "none"]
    /\ gumCalls = [i \in Instances |-> 0]
    /\ videoRef = [i \in Instances |-> FALSE]
    /\ srcObject = [i \in Instances |-> FALSE]
    /\ trackState = [i \in Instances |-> "none"]

FeedIdle ==
    /\ FeedInit
    /\ mediaSupported = FALSE

\* an instance of CameraFeed is rendered and its effect runs
FeedMount ==
    /\ feedCount < MaxMounts
    /\ feedCount > 0 => feedPhase[feedCount] = "unmounted"
    /\ LET i == feedCount + 1
       IN  /\ feedCount' = i
           /\ feedPhase' = [feedPhase EXCEPT ![i] = "mounted"]
           /\ videoRef' = [videoRef EXCEPT ![i] = TRUE]
           /\ IF mediaSupported
              THEN /\ gumState' = [gumState EXCEPT ![i] = "pending"]
                   /\ gumCalls' = [gumCalls EXCEPT ![i] = @ + 1]
              ELSE UNCHANGED <<gumState, gumCalls>>
    /\ UNCHANGED <<mediaSupported, srcObject, trackState>>
    /\ UNCHANGED <<sceneVars, probeVars>>

\* getUserMedia resolves with a stream whose track is live: the then callback
FeedResolve ==
    /\ \E i \in Instances :
         /\ gumState[i] = "pending"
         /\ gumState' = [gumState EXCEPT ![i] = "resolved"]
         /\ trackState' = [trackState EXCEPT ![i] = "live"]
         /\ srcObject' = [srcObject EXCEPT ![i] = videoRef[i]]
    /\ UNCHANGED <<mediaSupported, feedCount, feedPhase, gumCalls, videoRef>>
    /\ UNCHANGED <<sceneVars, probeVars>>

\* getUserMedia rejects: console.error only
FeedReject ==
    /\ \E i \in Instances :
         /\ gumState[i] = "pending"
         /\ gumState' = [gumState EXCEPT ![i] = "rejected"]
    /\ UNCHANGED <<mediaSupported, feedCount, feedPhase, gumCalls, videoRef,
                   srcObject, trackState>>
    /\ UNCHANGED <<sceneVars, probeVars>>

\* Unmount: the cleanup of the effect, and React detaching the ref.  Whether
\* videoRef.current is still the element when the cleanup reads it depends on
\* the order in which React detaches refs and runs effect cleanups.
FeedUnmount ==
    /\ \E i \in Instances :
         /\ feedPhase[i] = "mounted"
         /\ feedPhase' = [feedPhase EXCEPT ![i] = "unmounted"]
         /\ \E refAtCleanup \in {videoRef[i], FALSE} :
              trackState' = IF refAtCleanup /\ srcObject[i]
                            THEN [trackState EXCEPT ![i] = "ended"]
                            ELSE trackState
         /\ videoRef' = [videoRef EXCEPT ![i] = FALSE]
    /\ UNCHANGED <<mediaSupported, feedCount, gumState, gumCalls, srcObject>>
    /\ UNCHANGED <<sceneVars, probeVars>>

(***************************************************************************)
(* One render of RelativeObject on arbitrary props                         *)
(***************************************************************************)
DirectionSamples == {15 * k : k \in (0 - MaxDirSteps)..MaxDirSteps}

ProbeInit ==
    /\ probePhase = "props"
    /\ probeMeters \in 0..MaxMeters
    /\ probeDirection \in DirectionSamples
    /\ probePosition = Null
    /\ probePositionTurn = Null

ProbeIdle ==
    /\ probePhase = "idle"
    /\ probeMeters = 0
    /\ probeDirection = 0
    /\ probePosition = Null
    /\ probePositionTurn = Null

\* RelativeObject rendered with the props, and with the direction one turn on
ProbeRender ==
    /\ probePhase = "props"
    /\ probePhase' = "rendered"
    /\ probePosition' = RelativeObject(probeMeters, probeDirection)
    /\ probePositionTurn' = RelativeObject(probeMeters, probeDirection + 360)
    /\ UNCHANGED <<probeMeters, probeDirection>>
    /\ UNCHANGED <<sceneVars, feedVars>>

(***************************************************************************)
(* Specifications                                                          *)
(***************************************************************************)
Init == SceneInit /\ FeedIdle /\ ProbeIdle

InitFeed == SceneIdle /\ FeedInit /\ ProbeIdle

InitPlacement == SceneIdle /\ FeedIdle /\ ProbeInit

Next ==
    \/ SceneMount
    \/ PermissionResolve
    \/ PermissionReject
    \/ GeoSuccess
    \/ GeoError
    \/ OrientationEvent
    \/ ObjectClick
    \/ SceneUnmount

Spec == Init /\ [][Next]_vars

FeedNext ==
    \/ FeedMount
    \/ FeedResolve
    \/ FeedReject
    \/ FeedUnmount

SpecFeed == InitFeed /\ [][FeedNext]_vars

PlacementNext == ProbeRender

SpecPlacement == InitPlacement /\ [][PlacementNext]_vars

(***************************************************************************)
(* Properties                                                              *)
(***************************************************************************)
GatesOpen == permissionGranted /\ userLocation # Null

MarkersShown == Mounted /\ GatesOpen /\ rendered.text = ""

VectorEq(p, q) == \A i \in 1..3 : RealEq(p[i], q[i])

\* C1: the visible set is the ten initial ids minus exactly the ids clicked
\* so far (a click removes its id and nothing else, and nothing is re-added),
\* and with both gates open the rendered markers are exactly the markers
\* whose id is in the set; with a gate closed no marker is rendered.
C1_VisibleIsInitialMinusClicked ==
    /\ visibleObjects = InitialObjects \ clicked
    /\ (Mounted /\ GatesOpen) => rendered.markers = visibleObjects
    /\ ~(Mounted /\ GatesOpen) => rendered.markers = {}

C1_Witness ==
    /\ Mounted
    /\ Cardinality(clicked) = 3
    /\ rendered.markers = InitialObjects \ clicked

C3_DenialStaysWaiting ==
    (requiresPermission /\ permState \in PermissionStates \ {"granted"}) =>
        /\ ~permissionGranted
        /\ ~listenerRegistered
        /\ rendered.markers = {}
        /\ Mounted => rendered.text = WaitingPermissionText
        /\ requestCalls = 1

C3_Witness ==
    /\ permState = "denied"
    /\ Mounted
    /\ userLocation # Null
    /\ rendered.text = WaitingPermissionText

\* C5: a mounted scene shows the waiting-for-permission message whenever
\* permissionGranted is false, the getting-location message when
\* permissionGranted is true and userLocation is null, and markers only
\* when both gates are open; when geolocation is unavailable or its error
\* callback has fired, userLocation is null and no marker is rendered.
C5_GatePriority ==
    /\ Mounted =>
         /\ ~permissionGranted =>
              rendered = [text |-> WaitingPermissionText, markers |-> {}]
         /\ (permissionGranted /\ userLocation = Null) =>
              rendered = [text |-> GettingLocationText, markers |-> {}]
         /\ GatesOpen => rendered.text = ""
    /\ rendered.markers # {} => GatesOpen
    /\ (~geoAvailable \/ geoState = "error") =>
         userLocation = Null /\ rendered.markers = {}

C5_Witness ==
    /\ Mounted
    /\ geoState = "error"
    /\ permissionGranted
    /\ rendered.text = GettingLocationText

\* C6: while the component exists, the stored deviceOrientation is the triple
\* of the latest delivered event with no null field, or {0,0,0} when there
\* has been none; an event with a null field changes nothing.
C6_StoredIsLatestValid ==
    scenePhase # "unmounted" => deviceOrientation = lastValid

C6_Witness ==
    /\ Mounted
    /\ listenerRegistered
    /\ deviceOrientation = [alpha |-> 90, beta |-> 90, gamma |-> 90]

\* C7: once the effects have run, camera.quaternion is the rotation built
\* from Euler(beta - 90 degrees, alpha, gamma) of the stored triple alone,
\* and for the triple (0, 90, 0) it is the identity rotation.
C7_CameraFromCurrentTriple ==
    scenePhase # "created" =>
        /\ QuaternionEq(cameraQuaternion,
                        SetFromEuler(DegToRad(deviceOrientation.beta) - PiOver2,
                                     DegToRad(deviceOrientation.alpha),
                                     DegToRad(deviceOrientation.gamma)))
        /\ deviceOrientation = [alpha |-> 0, beta |-> 90, gamma |-> 0] =>
              QuaternionEq(cameraQuaternion, QuaternionIdentity)

C7_Witness ==
    /\ Mounted
    /\ deviceOrientation = [alpha |-> 0, beta |-> 90, gamma |-> 0]
    /\ QuaternionEq(cameraQuaternion, QuaternionIdentity)

\* C9 as stated: once the scene is unmounted and the permission request is no
\* longer pending, no deviceorientation listener of the component remains
\* registered on window.
C9_NoListenerAfterUnmount ==
    (scenePhase = "unmounted" /\ permState # "pending") => ~listenerRegistered

\* C10: permissionGranted never goes back to false, userLocation once set
\* never changes, and a mounted scene that shows the markers keeps showing
\* them for as long as it is mounted.
C10_GatesMonotonic ==
    [][ /\ permissionGranted => permissionGranted'
        /\ userLocation # Null => userLocation' = userLocation
        /\ (MarkersShown /\ scenePhase' = "mounted") => MarkersShown'
      ]_vars

C10_Witness ==
    /\ MarkersShown
    /\ permState = "granted"
    /\ geoState = "success"
    /\ clicked # {}
    /\ deviceOrientation # DefaultOrientation

\* C4 as stated: getUserMedia is called at most once per mount, and once an
\* instance is unmounted and its getUserMedia promise has settled, the
\* stream it acquired has no live track.
C4_StreamReleasedOnUnmount ==
    \A i \in Instances :
        /\ gumCalls[i] <= 1
        /\ (feedPhase[i] = "unmounted" /\ gumState[i] # "pending") =>
              trackState[i] # "live"

\* C8: a rendered RelativeObject is at x = sin(direction)*meters*0.5, y = 0,
\* z = -cos(direction)*meters*0.5: (0, 0, -meters/2) at 0 degrees,
\* (meters/2, 0, 0) at 90, (0, 0, meters/2) at 180, (-meters/2, 0, 0) at
\* 270, the origin for meters = 0, and the same position one turn on.
C8_Placement ==
    probePhase = "rendered" =>
        LET half == Ratio(probeMeters, 2)
            zero == Real(0)
            rad  == DegToRad(probeDirection)
        IN  /\ RealEq(probePosition[1], RealMul(MathSin(rad), half))
            /\ probePosition[2] = zero
            /\ RealEq(probePosition[3], RealNeg(RealMul(MathCos(rad), half)))
            /\ probeDirection = 0 =>
                  VectorEq(probePosition, <<zero, zero, RealNeg(half)>>)
            /\ probeDirection = 90 =>
                  VectorEq(probePosition, <<half, zero, zero>>)
            /\ probeDirection = 180 =>
                  VectorEq(probePosition, <<zero, zero, half>>)
            /\ probeDirection = 270 =>
                  VectorEq(probePosition, <<RealNeg(half), zero, zero>>)
            /\ probeMeters = 0 => VectorEq(probePosition, <<zero, zero, zero>>)
            /\ VectorEq(probePosition, probePositionTurn)

C8_Witness ==
    /\ probePhase = "rendered"
    /\ probeMeters = 3
    /\ probeDirection = 90
    /\ VectorEq(probePosition, <<Ratio(3, 2), Real(0), Real(0)>>)

====
